---------------------------- MODULE Spec2Model ----------------------------
(***************************************************************************)
(* A model of curl-ier.js: the batch HTTP request runner.                  *)
(*                                                                         *)
(* Text is modelled as a sequence of one-character strings, so that the    *)
(* placeholder substitution and the file-name sanitisation are computed    *)
(* character by character as the JavaScript does.  Cookie strings are      *)
(* atomic TLA+ strings.  One run of main() is a sequential process whose   *)
(* position is pc; the steps are cut at the awaits of the code.  The       *)
(* ledger file and the output folder outlive a run: Interrupt kills the    *)
(* process and Rerun starts main() again on the same files.                *)
(***************************************************************************)
EXTENDS Integers, Sequences, FiniteSets, TLC

\* ------------------------------------------------------------------ bounds
MaxRecords == 2
MaxCookieUrls == 2
MaxRuns == 2
MaxAttempts == 5
MaxFileLen == 4
MaxLimit == 3
MaxValueLen == 2

\* --------------------------------------------------------------- constants
maxRetries == 3
defaultMaxLength == 200

\* -------------------------------------------------------------------- text
Placeholder == <<"{", "v", "a", "r", "i", "a", "b", "l", "e", "}">>

\* The grave accent (U+0060) cannot be written in a TLA+ string: this token
\* stands for that one character.
Grave == "GRAVE"

Min(a, b) == IF a < b THEN a ELSE b

\* Whether the regular expression /\{variable\}/ matches str at position p.
MatchesAt(str, p) ==
    /\ p + Len(Placeholder) - 1 <= Len(str)
    /\ SubSeq(str, p, p + Len(Placeholder) - 1) = Placeholder

\* String.prototype.replace with a replacement STRING expands the patterns
\* $$, $&, $(grave) and $' of the replacement (there are no capture groups, so
\* $1..$99 and $<name> stay literal).  str is the subject, p the position of
\* the match, q the position reached in the replacement.
RECURSIVE GetSubstitution(_, _, _, _)
GetSubstitution(str, p, replacement, q) ==
    IF q > Len(replacement) THEN <<>>
    ELSE IF replacement[q] = "$" /\ q < Len(replacement)
         /\ replacement[q + 1] \in {"$", "&", Grave, "'"}
    THEN (CASE replacement[q + 1] = "$" -> <<"$">>
            [] replacement[q + 1] = "&" -> Placeholder
            [] replacement[q + 1] = Grave -> SubSeq(str, 1, p - 1)
            [] OTHER -> SubSeq(str, p + Len(Placeholder), Len(str)))
         \o GetSubstitution(str, p, replacement, q + 2)
    ELSE <<replacement[q]>> \o GetSubstitution(str, p, replacement, q + 1)

\* requestData.replace(/\{variable\}/g, line), scanning from position p.
RECURSIVE ReplaceFrom(_, _, _)
ReplaceFrom(str, p, line) ==
    IF p > Len(str) THEN <<>>
    ELSE IF MatchesAt(str, p)
    THEN GetSubstitution(str, p, line, 1)
         \o ReplaceFrom(str, p + Len(Placeholder), line)
    ELSE <<str[p]>> \o ReplaceFrom(str, p + 1, line)

\* The derived RequestData of a record: the template with the placeholder
\* replaced, or the raw line when the template is absent or empty (falsy).
DeriveRequestData(template, line) ==
    IF template # <<>> THEN ReplaceFrom(template, 1, line) ELSE line

AllowedChars ==
    {"a", "b", "c", "d", "e", "f", "g", "h", "i", "j", "k", "l", "m", "n", "o",
     "p", "q", "r", "s", "t", "u", "v", "w", "x", "y", "z",
     "A", "B", "C", "D", "E", "F", "G", "H", "I", "J", "K", "L", "M", "N", "O",
     "P", "Q", "R", "S", "T", "U", "V", "W", "X", "Y", "Z",
     "0", "1", "2", "3", "4", "5", "6", "7", "8", "9", "-", "_", "."}

\* variable.replace(/[^a-zA-Z0-9-_\.]/g, ''): every character is matched on
\* its own, so the result of a text is that of its halves, one after the other.
RECURSIVE StripDisallowed(_)
StripDisallowed(s) ==
    IF Len(s) = 0 THEN <<>>
    ELSE IF Len(s) = 1 THEN (IF s[1] \in AllowedChars THEN s ELSE <<>>)
    ELSE LET half == Len(s) \div 2
         IN  StripDisallowed(SubSeq(s, 1, half))
             \o StripDisallowed(SubSeq(s, half + 1, Len(s)))

\* A variant that cuts the raw variable before it strips it.
sanitizeAndTruncateRaw(variable, maxLength) ==
    StripDisallowed(SubSeq(variable, 1, Min(Len(variable), maxLength)))
sanitizeAndTruncate(variable, maxLength) ==
    LET sanitized == StripDisallowed(variable)
    IN  IF Len(sanitized) > maxLength THEN SubSeq(sanitized, 1, maxLength)
        ELSE sanitized

\* The path saveResponse writes: outputFolder, baseName, the date and the
\* extension are fixed within a run on one day, so the sanitised variable
\* part identifies the file.
FileName(variable) == sanitizeAndTruncate(variable, defaultMaxLength)

\* ------------------------------------------------------------------ values
\* A JavaScript value that is null, an array of cookie strings or a number:
\* what main's cookies and sendRequest's sessionCookie can hold.
NullValue == [tag |-> "null", list |-> <<>>, num |-> 0]
ListValue(l) == [tag |-> "list", list |-> l, num |-> 0]
NumValue(n) == [tag |-> "num", list |-> <<>>, num |-> n]

\* cookies.join('; ')
RECURSIVE Join(_)
Join(cs) ==
    IF cs = <<>> THEN ""
    ELSE IF Len(cs) = 1 THEN cs[1]
    ELSE cs[1] \o "; " \o Join(Tail(cs))

RECURSIVE Flatten(_)
Flatten(ls) == IF ls = <<>> THEN <<>> ELSE Head(ls) \o Flatten(Tail(ls))

\* What sendRequest returns: null, or response.data (a body, possibly empty).
NullResponse == [null |-> TRUE, data |-> ""]
Body(b) == [null |-> FALSE, data |-> b]
\* if (response): null and the empty string are falsy.
Truthy(r) == ~r.null /\ r.data # ""

\* The errors a request can raise.
NetworkError == [isAxiosError |-> TRUE, hasResponse |-> FALSE, status |-> 0]
HttpError(s) == [isAxiosError |-> TRUE, hasResponse |-> TRUE, status |-> s]
OtherError == [isAxiosError |-> FALSE, hasResponse |-> FALSE, status |-> 0]
NoError == [isAxiosError |-> FALSE, hasResponse |-> FALSE, status |-> 200]
Errors == {NetworkError, HttpError(429), HttpError(404), HttpError(500), OtherError}

\* A slip of shouldRetry: every Axios error is retried, whatever its status.
shouldRetryAnyAxiosError(error) == error.isAxiosError

shouldRetry(error) ==
    error.isAxiosError /\ (~error.hasResponse \/ error.status = 429)


\* ------------------------------------------------------------------ ledger
\* Property names every JavaScript object inherits with a truthy value.
ValueOfKey == <<"v", "a", "l", "u", "e", "O", "f">>
ProtoKey == <<"_", "_", "p", "r", "o", "t", "o", "_", "_">>
InheritedKeys == {ValueOfKey, ProtoKey}
LengthKey == <<"l", "e", "n", "g", "t", "h">>
Digits == {"0", "1", "2", "3", "4", "5", "6", "7", "8", "9"}

\* A canonical array index: "0", or digits without a leading zero.
IsArrayIndex(k) ==
    /\ k # <<>>
    /\ \A n \in 1..Len(k) : k[n] \in Digits
    /\ (Len(k) = 1 \/ k[1] # "0")

\* The content of the ledger file: no file, text that is not JSON, or a JSON
\* value.  keys are the property names holding true.  A JSON array is
\* modelled by the indices that hold true (its other elements are null).
FileContent(kind, keys) == [kind |-> kind, keys |-> keys]
MissingFile == FileContent("missing", {})

\* logFile ? await fs.readJSON(logFile).catch(() => ({})) : {}
LoadLedger(isSet, file) ==
    IF ~isSet \/ file.kind \in {"missing", "garbage"}
    THEN FileContent("object", {})
    ELSE file

\* The truthiness of log[key], for a log that is not null.
Has(l, key) ==
    \/ key \in l.keys
    \/ key \in InheritedKeys
    \/ (l.kind = "array" /\ key = LengthKey /\ \E k \in l.keys : IsArrayIndex(k))

\* log[key] = true in non-strict code: a primitive drops the assignment, and
\* the __proto__ setter ignores a value that is not an object.
\* A variant that starts the mapping anew with the key.
MarkAlone(l, key) ==
    IF l.kind \in {"object", "array"} /\ key # ProtoKey
    THEN [l EXCEPT !.keys = {key}]
    ELSE l
Mark(l, key) ==
    IF l.kind \in {"object", "array"} /\ key # ProtoKey
    THEN [l EXCEPT !.keys = @ \cup {key}]
    ELSE l

\* fs.writeJSON(logFile, log): JSON.stringify keeps an object's own
\* properties, and of an array only its elements.
ToFile(l) ==
    IF l.kind = "array"
    THEN [l EXCEPT !.keys = {k \in @ : IsArrayIndex(k)}]
    ELSE l

\* ------------------------------------------------------------ the payload
Newline == "\n"
Max(a, b) == IF a > b THEN a ELSE b

\* fileContent.split('\n'): the pieces between the newlines, one more than
\* there are newlines (the text after a final newline is an empty piece).
RECURSIVE Split(_)
Split(text) ==
    IF \A k \in 1..Len(text) : text[k] # Newline
    THEN <<text>>
    ELSE LET p == CHOOSE k \in 1..Len(text) :
                      /\ text[k] = Newline
                      /\ \A j \in 1..(k - 1) : text[j] # Newline
         IN  <<SubSeq(text, 1, p - 1)>> \o Split(SubSeq(text, p + 1, Len(text)))

\* lines.slice(0, end): a negative end counts from the end of the array.
Slice(lines, end) ==
    LET final == IF end < 0 THEN Max(Len(lines) + end, 0) ELSE Min(end, Len(lines))
    IN  SubSeq(lines, 1, final)

\* argv.recordLimit: undefined when the option is not given.
NoLimit == [given |-> FALSE, n |-> 0]
Limit(n) == [given |-> TRUE, n |-> n]
\* recordLimit || lines.length: undefined and 0 are both falsy.
LimitOrLength(limit, length) ==
    IF limit.given /\ limit.n # 0 THEN limit.n ELSE length

\* argv.dataRawFile and the file it names.
NoFile == [given |-> FALSE, readable |-> FALSE, text |-> <<>>]
UnreadableFile == [given |-> TRUE, readable |-> FALSE, text |-> <<>>]
TextFile(text) == [given |-> TRUE, readable |-> TRUE, text |-> text]

processFile(file, limit) ==
    IF ~file.given THEN <<>>
    ELSE IF ~file.readable THEN <<>>
    ELSE LET lines == Split(file.text)
         IN  Slice(lines, LimitOrLength(limit, Len(lines)))

\* main, lines 385-397: the record sequence.
PreparedLines(file, single, limit) ==
    IF file.given THEN processFile(file, limit)
    ELSE IF single # <<>> THEN <<single>>
    ELSE << <<>> >>

\* The file whose lines are the given records (no file has zero lines: an
\* empty record sequence comes from a file that cannot be read).
RECURSIVE JoinLines(_)
JoinLines(lines) ==
    IF Len(lines) = 1 THEN lines[1]
    ELSE lines[1] \o <<Newline>> \o JoinLines(Tail(lines))
FileOf(lines) ==
    IF lines = <<>> THEN UnreadableFile ELSE TextFile(JoinLines(lines))

\* --------------------------------------------------------- input families
\* argv.url, the main target; NoUrl where no call of sendRequest is running.
TargetUrl == "target"
NoUrl == ""
RecordValues == {<<>>, <<"a">>, ValueOfKey}
Templates == {<<>>, <<"q", "=">> \o Placeholder, <<"q">>}
Bodies == {"", "ok"}
LoginSetCookies == {<<>>, <<"a=1">>}
VisitSetCookies(n) == {<<>>, <<"c" \o ToString(n)>>}
RECURSIVE SeqsUpTo(_, _)
SeqsUpTo(S, n) ==
    IF n = 0 THEN {<<>>}
    ELSE LET shorter == SeqsUpTo(S, n - 1)
         IN  shorter \cup {Append(s, x) : s \in shorter, x \in S}
LedgerFiles ==
    {MissingFile, FileContent("garbage", {}), FileContent("null", {}),
     FileContent("number", {}), FileContent("array", {}),
     FileContent("object", {})}
\* Payload files: every text of at most MaxFileLen characters over a letter
\* and the newline, and a file that cannot be read.
PayloadFiles ==
    {UnreadableFile} \cup {TextFile(t) : t \in SeqsUpTo({"a", Newline}, MaxFileLen)}
Limits == {NoLimit} \cup {Limit(n) : n \in (0 - 1)..MaxLimit}
\* Record values with the characters String.prototype.replace reads in a
\* replacement string, and templates with no, one and two placeholders.
\* Record values for the file names: with and without characters outside the
\* class, and around the maximum length.
Repeat(c, n) == [k \in 1..n |-> c]
NameValues ==
    {<<>>, <<"a">>, <<"a", "/">>,
     <<"a", "/", "b", ":", "c", " ", "d", "!">>,
     <<"-", "_", ".", "Z", "9", "~">>,
     Repeat("a", defaultMaxLength),
     Repeat("a", defaultMaxLength) \o <<"/", "b">>,
     <<"$">> \o Repeat("x", defaultMaxLength + 1)}
SubstValues == SeqsUpTo({"4", "$", "&", "'"}, MaxValueLen)
SubstTemplates ==
    Templates \cup {<<"i", "d", "=">> \o Placeholder \o <<"&">> \o Placeholder}


\* ------------------------------------------------------------------- state
VARIABLES
    loginConfigured,  \* argv: loginUrl, username and password are all given
    cookieUrls,       \* argv: the extra cookie URLs, in order
    dataRawString,    \* argv: the template (<<>>: absent or empty)
    dataRawFile,      \* argv: the payload file, with its content
    singleDataRaw,    \* argv: the single payload value (<<>>: absent or empty)
    recordLimit,      \* argv: the record limit
    dataRawLines,     \* the record sequence main iterates over
    logFile,          \* argv: whether a ledger path is given
    ledgerFile,       \* the content of the ledger file on disk
    outFiles,         \* the output folder: a set of [name, body]
    pc,               \* where main() is
    run,              \* the number of the current run of the program
    cookies,          \* main's cookies / loginWithCookie's cookies
    urlIdx,           \* the extra cookie URL being visited
    log,              \* main's in-memory ledger
    i,                \* main's loop index (from 0, as in the code)
    requestData,      \* the derived RequestData of record i
    url,              \* sendRequest's parameter
    dataRaw,          \* sendRequest's parameter
    sessionCookie,    \* sendRequest's parameter
    retryCount,       \* sendRequest's parameter
    response,         \* what sendRequest returned to main
    wire,             \* requests issued to the main target in this run
    attempts,         \* requests issued by the current sendRequest chain
    lastError,        \* the error of the latest attempt (NoError: none)
    received,         \* the Set-Cookie lists received during login, in order
    visits,           \* the Cookie header sent to each extra URL, in order
    loginReturned,    \* "none", "null" or "cookies": loginWithCookie's result
    processed,        \* RequestData saved, marked in log and persisted in this run
    doneBefore,       \* RequestData saved, marked and persisted in earlier runs
    atStart           \* the ledger file and output folder when the run began

argv == <<loginConfigured, cookieUrls, dataRawString, dataRawFile,
          singleDataRaw, recordLimit, logFile>>
config == <<argv, dataRawLines>>
disk == <<ledgerFile, outFiles>>
loginVars == <<cookies, urlIdx, received, visits, loginReturned>>
callVars == <<url, dataRaw, sessionCookie, retryCount, attempts, lastError>>
history == <<processed, doneBefore, atStart>>
vars == <<config, disk, pc, run, loginVars, log, i, requestData, response,
          callVars, wire, history>>

\* The memory of a process that has not run yet (or runs no more).
FreshProcess ==
    /\ cookies' = NullValue
    /\ urlIdx' = 0
    /\ log' = FileContent("object", {})
    /\ i' = 0
    /\ requestData' = <<>>
    /\ url' = NoUrl
    /\ dataRaw' = <<>>
    /\ sessionCookie' = NullValue
    /\ retryCount' = 0
    /\ response' = NullResponse
    /\ wire' = {}
    /\ attempts' = 0
    /\ lastError' = NoError
    /\ received' = <<>>
    /\ visits' = <<>>
    /\ loginReturned' = "none"

\* The first run of the program, with nothing in the output folder.
Started ==
    /\ outFiles = {}
    /\ run = 1
    /\ cookies = NullValue
    /\ urlIdx = 0
    /\ log = FileContent("object", {})
    /\ i = 0
    /\ requestData = <<>>
    /\ url = NoUrl
    /\ dataRaw = <<>>
    /\ sessionCookie = NullValue
    /\ retryCount = 0
    /\ response = NullResponse
    /\ wire = {}
    /\ attempts = 0
    /\ lastError = NoError
    /\ received = <<>>
    /\ visits = <<>>
    /\ loginReturned = "none"
    /\ processed = {}
    /\ doneBefore = {}
    /\ atStart = [ledger |-> ledgerFile, out |-> outFiles]

\* The arguments and the files a run starts from.  The extra cookie URLs are
\* read only when login is configured; the ledger file is read only when a
\* logFile is given.  The unusual ledger contents are explored in the runs
\* without login; with login the ledger file, if any, is an empty object.
\* The payload is a file of at most MaxRecords lines, already read into
\* dataRawLines.
Init ==
    /\ loginConfigured \in BOOLEAN
    /\ cookieUrls \in (IF loginConfigured
                       THEN {[n \in 1..k |-> n] : k \in 0..MaxCookieUrls}
                       ELSE {<<>>})
    /\ dataRawString \in Templates
    /\ dataRawFile \in {FileOf(lines) : lines \in SeqsUpTo(RecordValues, MaxRecords)}
    /\ singleDataRaw = <<>>
    /\ recordLimit = NoLimit
    /\ dataRawLines = PreparedLines(dataRawFile, singleDataRaw, recordLimit)
    /\ logFile \in BOOLEAN
    /\ ledgerFile \in (IF ~logFile THEN {MissingFile}
                       ELSE IF loginConfigured THEN {FileContent("object", {})}
                       ELSE LedgerFiles)
    /\ pc = "main"
    /\ Started


\* ------------------------------------------------------------------- login
\* main, lines 363-371: login only when all three arguments are given.
StartLogin ==
    /\ pc = "main" /\ loginConfigured
    /\ pc' = "login"
    /\ UNCHANGED <<config, disk, run, loginVars, log, i, requestData,
                   response, callVars, wire, history>>

StartNoLogin ==
    /\ pc = "main" /\ ~loginConfigured
    /\ pc' = "load"
    /\ UNCHANGED <<config, disk, run, loginVars, log, i, requestData,
                   response, callVars, wire, history>>

\* loginWithCookie, lines 212-217: what it returns once every visit is done.
LoginResult(cs) == IF Len(cs) = 0 THEN NullValue ELSE ListValue(cs)

\* A slip of main: the result of loginWithCookie is not checked.
AfterLoginUnchecked(c) == "load"

\* main, lines 367-370: without cookies the run ends.
AfterLogin(c) == IF c.tag = "null" THEN "aborted" ELSE "load"

\* loginWithCookie returns c to main.
ReturnFromLogin(c) ==
    /\ cookies' = c
    /\ loginReturned' = IF c.tag = "null" THEN "null" ELSE "cookies"
    /\ pc' = AfterLogin(c)

\* The GET of extra URL n is issued with the cookies cs collected so far.
StartVisit(n, cs) ==
    /\ urlIdx' = n
    /\ cookies' = ListValue(cs)
    /\ visits' = Append(visits, Join(cs))
    /\ pc' = "visit"
    /\ UNCHANGED loginReturned

\* The login POST fails (no connection, or a status outside [200,400)): the
\* catch of loginWithCookie returns null.
LoginFails ==
    /\ pc = "login"
    /\ ReturnFromLogin(NullValue)
    /\ UNCHANGED <<config, disk, run, urlIdx, received, visits, log, i,
                   requestData, response, callVars, wire, history>>

LoginResponds ==
    /\ pc = "login"
    /\ \E sc \in LoginSetCookies :
        /\ received' = <<sc>>
        /\ IF cookieUrls = <<>>
           THEN ReturnFromLogin(LoginResult(sc)) /\ UNCHANGED <<urlIdx, visits>>
           ELSE StartVisit(1, sc)
    /\ UNCHANGED <<config, disk, run, log, i, requestData, response,
                   callVars, wire, history>>

\* The GET of an extra URL fails: it is inside the same try, so the catch of
\* loginWithCookie returns null.
VisitFails ==
    /\ pc = "visit"
    /\ ReturnFromLogin(NullValue)
    /\ UNCHANGED <<config, disk, run, urlIdx, received, visits, log, i,
                   requestData, response, callVars, wire, history>>

\* cookies = cookies.concat(newCookies)
Accumulate(cs, newCookies) == cs \o newCookies

VisitResponds ==
    /\ pc = "visit"
    /\ \E nc \in VisitSetCookies(urlIdx) :
        LET cs == Accumulate(cookies.list, nc)
        IN  /\ received' = Append(received, nc)
            /\ IF urlIdx < Len(cookieUrls)
               THEN StartVisit(urlIdx + 1, cs)
               ELSE ReturnFromLogin(LoginResult(cs)) /\ UNCHANGED <<urlIdx, visits>>
    /\ UNCHANGED <<config, disk, run, log, i, requestData, response,
                   callVars, wire, history>>


\* ----------------------------------------------------- payload preparation
\* main, lines 385-397: let dataRawLines be the record sequence.
PreparePayload ==
    /\ pc = "prepare"
    /\ dataRawLines' = PreparedLines(dataRawFile, singleDataRaw, recordLimit)
    /\ pc' = "load"
    /\ UNCHANGED <<argv, disk, run, loginVars, log, i, requestData, response,
                   callVars, wire, history>>

\* -------------------------------------------------------------- processing
\* main, line 400: the ledger is read; the loop starts at i = 0.
ReadLedger ==
    /\ pc = "load"
    /\ log' = LoadLedger(logFile, ledgerFile)
    /\ i' = 0
    /\ pc' = "loop"
    /\ UNCHANGED <<config, disk, run, loginVars, requestData, response,
                   callVars, wire, history>>

\* dataRawLines[i], with the code's index from 0.
Line(n) == dataRawLines[n + 1]

\* main, line 403: the loop ends after the last record.
LoopExit ==
    /\ pc = "loop" /\ ~(i < Len(dataRawLines))
    /\ pc' = "done"
    /\ UNCHANGED <<config, disk, run, loginVars, log, i, requestData,
                   response, callVars, wire, history>>

\* main, line 413: log[requestData] on a log that is null raises a TypeError,
\* which main().catch reports before process.exit(1).
LoopThrows ==
    /\ pc = "loop" /\ i < Len(dataRawLines)
    /\ log.kind = "null"
    /\ pc' = "crashed"
    /\ UNCHANGED <<config, disk, run, loginVars, log, i, requestData,
                   response, callVars, wire, history>>

\* A variant in which the skip falls through to the delay at the loop's end.
LoopSkipDelayed ==
    /\ pc = "loop" /\ i < Len(dataRawLines)
    /\ log.kind # "null"
    /\ Has(log, DeriveRequestData(dataRawString, Line(i)))
    /\ pc' = "sleep"
    /\ UNCHANGED <<config, disk, run, loginVars, log, i, requestData,
                   response, callVars, wire, history>>
\* main, line 413: continue goes straight to i++ (the delay is not reached).
LoopSkip ==
    /\ pc = "loop" /\ i < Len(dataRawLines)
    /\ log.kind # "null"
    /\ Has(log, DeriveRequestData(dataRawString, Line(i)))
    /\ i' = i + 1
    /\ UNCHANGED <<config, disk, pc, run, loginVars, log, requestData,
                   response, callVars, wire, history>>

\* main, line 416: sendRequest(url, headers, requestData, cookies), with
\* retryCount at its default 0.
LoopSend ==
    /\ pc = "loop" /\ i < Len(dataRawLines)
    /\ log.kind # "null"
    /\ LET rd == DeriveRequestData(dataRawString, Line(i))
       IN  /\ ~Has(log, rd)
           /\ requestData' = rd
           /\ dataRaw' = rd
    /\ url' = TargetUrl
    /\ sessionCookie' = cookies
    /\ retryCount' = 0
    /\ attempts' = 0
    /\ lastError' = NoError
    /\ pc' = "send"
    /\ UNCHANGED <<config, disk, run, loginVars, log, i, response, wire,
                   history>>

\* sendRequest, lines 59-63: POST when dataRaw is truthy, GET otherwise.
Method(body) == IF body # <<>> THEN "POST" ELSE "GET"

\* sendRequest, lines 55-63: one request goes out.  attempts counts the
\* requests of the call chain and stops counting at MaxAttempts.
IssueRequest ==
    /\ pc = "send"
    /\ wire' = wire \cup {[i |-> i, method |-> Method(dataRaw), url |-> url,
                           data |-> dataRaw, cookie |-> sessionCookie]}
    /\ attempts' = Min(attempts + 1, MaxAttempts)
    /\ pc' = "await"
    /\ UNCHANGED <<config, disk, run, loginVars, log, i, requestData,
                   response, url, dataRaw, sessionCookie, retryCount,
                   lastError, history>>

\* main, lines 419-434: a truthy response is saved, anything else goes
\* straight to the delay.
\* A variant that saves whatever sendRequest returned.
AfterSendRequestUnchecked(r) == "save"
AfterSendRequest(r) == IF Truthy(r) THEN "save" ELSE "sleep"

\* sendRequest, line 64: the request succeeds and response.data is returned.
RespondOk ==
    /\ pc = "await"
    /\ \E b \in Bodies :
        /\ response' = Body(b)
        /\ pc' = AfterSendRequest(Body(b))
    /\ lastError' = NoError
    /\ UNCHANGED <<config, disk, run, loginVars, log, i, requestData,
                   url, dataRaw, sessionCookie, retryCount, attempts, wire,
                   history>>

\* sendRequest, line 68: sendRequest(url, headers, dataRaw, retryCount + 1).
\* The call passes four arguments, so retryCount + 1 binds to the fourth
\* parameter, sessionCookie, and retryCount takes its default 0.
RetryCall(cookie, count) ==
    [sessionCookie |-> NumValue(count + 1), retryCount |-> 0]

\* sendRequest, line 68: the first and the third argument of the retry call
\* are the url and the dataRaw of the call that failed.
\* A variant whose retry call leaves the body out.
RetryArgsNoBody(u, body) == [url |-> u, dataRaw |-> <<>>]
RetryArgs(u, body) == [url |-> u, dataRaw |-> body]

\* sendRequest, line 66: whether the catch re-issues the request.
RetryDecision(count, error) == count < maxRetries /\ shouldRetry(error)

\* sendRequest, lines 65-72: the request fails.
RespondError ==
    /\ pc = "await"
    /\ \E e \in Errors :
        /\ lastError' = e
        /\ IF RetryDecision(retryCount, e)
           THEN /\ url' = RetryArgs(url, dataRaw).url
                /\ dataRaw' = RetryArgs(url, dataRaw).dataRaw
                /\ sessionCookie' = RetryCall(sessionCookie, retryCount).sessionCookie
                /\ retryCount' = RetryCall(sessionCookie, retryCount).retryCount
                /\ pc' = "send"
                /\ UNCHANGED response
           ELSE /\ response' = NullResponse
                /\ pc' = AfterSendRequest(NullResponse)
                /\ UNCHANGED <<url, dataRaw, sessionCookie, retryCount>>
    /\ UNCHANGED <<config, disk, run, loginVars, log, i, requestData,
                   attempts, wire, history>>

\* saveResponse, lines 140-154: fs.outputFile overwrites the file of that name.
WriteFile(files, name, body) ==
    {f \in files : f.name # name} \cup {[name |-> name, body |-> body]}

\* main, lines 420-426: the response is written, the ledger marked, and with
\* a logFile the write of the ledger begins.
SaveResponse ==
    /\ pc = "save"
    /\ outFiles' = WriteFile(outFiles, FileName(Line(i)), response.data)
    /\ log' = Mark(log, requestData)
    /\ pc' = IF logFile THEN "persist" ELSE "sleep"
    /\ UNCHANGED <<config, ledgerFile, run, loginVars, i, requestData,
                   response, callVars, wire, history>>

\* main, line 425: fs.writeJSON(logFile, log) completes.
PersistLedger ==
    /\ pc = "persist"
    /\ ledgerFile' = ToFile(log)
    /\ processed' = processed \cup ({requestData} \cap log.keys)
    /\ pc' = "sleep"
    /\ UNCHANGED <<config, outFiles, run, loginVars, log, i, requestData,
                   response, callVars, wire, doneBefore, atStart>>

\* main, lines 433-434 and the loop's i++: the delay elapses.  The variables
\* of the loop body and of the finished sendRequest call go out of scope.
Sleep ==
    /\ pc = "sleep"
    /\ i' = i + 1
    /\ pc' = "loop"
    /\ requestData' = <<>>
    /\ response' = NullResponse
    /\ url' = NoUrl
    /\ dataRaw' = <<>>
    /\ sessionCookie' = NullValue
    /\ retryCount' = 0
    /\ attempts' = 0
    /\ lastError' = NoError
    /\ UNCHANGED <<config, disk, run, loginVars, log, wire, history>>

\* ------------------------------------------------------- interrupt, resume
Running == pc \notin {"done", "aborted", "crashed", "interrupted"}

\* The process is killed from outside: its memory is gone, the files stay.
Interrupt ==
    /\ Running /\ run < MaxRuns
    /\ pc' = "interrupted"
    /\ FreshProcess
    /\ UNCHANGED <<config, disk, run, processed, doneBefore, atStart>>

\* The program is started again with the same arguments and the same files.
Rerun ==
    /\ ~Running /\ run < MaxRuns
    /\ run' = run + 1
    /\ pc' = "main"
    /\ FreshProcess
    /\ processed' = {}
    /\ doneBefore' = doneBefore \cup processed
    /\ atStart' = [ledger |-> ledgerFile, out |-> outFiles]
    /\ UNCHANGED <<config, disk>>

Login == StartLogin \/ LoginFails \/ LoginResponds \/ VisitFails \/ VisitResponds
Process ==
    \/ StartNoLogin \/ ReadLedger
    \/ LoopExit \/ LoopThrows \/ LoopSkip \/ LoopSend
    \/ IssueRequest \/ RespondOk \/ RespondError
    \/ SaveResponse \/ PersistLedger \/ Sleep
\* One run of the program, from its start to its end.
Next == Login \/ Process

Spec == Init /\ [][Next]_vars

\* Runs without login that can be killed and started again on the same files.
InitResume == Init /\ ~loginConfigured
NextResume == Process \/ Interrupt \/ Rerun

ResumeSpec == InitResume /\ [][NextResume]_vars

\* One run without login under weak fairness: main() is a single sequential
\* task, so a step that can be taken is eventually taken (a request is
\* eventually answered, a delay eventually elapses).
FairSpec == InitResume /\ [][Process]_vars /\ WF_vars(Process)

\* The preparation of the record sequence alone, over every payload source:
\* a run without login and without ledger that stands before lines 385-397.
InitPayload ==
    /\ loginConfigured = FALSE
    /\ cookieUrls = <<>>
    /\ dataRawString = <<>>
    /\ dataRawFile \in {NoFile} \cup PayloadFiles
    /\ singleDataRaw \in {<<>>, <<"a">>}
    /\ recordLimit \in Limits
    /\ dataRawLines = <<>>
    /\ logFile = FALSE
    /\ ledgerFile = MissingFile
    /\ pc = "prepare"
    /\ Started

PayloadSpec == InitPayload /\ [][PreparePayload]_vars

\* The derivation of the RequestData alone, over every template and record
\* value: a run without login and without ledger that stands at the head of
\* the loop (line 403) with one record.
InitSubst ==
    /\ loginConfigured = FALSE
    /\ cookieUrls = <<>>
    /\ dataRawString \in SubstTemplates
    /\ dataRawFile \in {FileOf(<<value>>) : value \in SubstValues}
    /\ singleDataRaw = <<>>
    /\ recordLimit = NoLimit
    /\ dataRawLines = PreparedLines(dataRawFile, singleDataRaw, recordLimit)
    /\ logFile = FALSE
    /\ ledgerFile = MissingFile
    /\ pc = "loop"
    /\ Started

SubstSpec == InitSubst /\ [][LoopSend]_vars

\* The naming of the output files, over record values of every shape: runs
\* without login, template and ledger file in which the target answers every
\* request.
InitNaming ==
    /\ loginConfigured = FALSE
    /\ cookieUrls = <<>>
    /\ dataRawString = <<>>
    /\ dataRawFile \in {FileOf(lines) : lines \in SeqsUpTo(NameValues, MaxRecords)}
    /\ singleDataRaw = <<>>
    /\ recordLimit = NoLimit
    /\ dataRawLines = PreparedLines(dataRawFile, singleDataRaw, recordLimit)
    /\ logFile = FALSE
    /\ ledgerFile = MissingFile
    /\ pc = "main"
    /\ Started
NextNaming ==
    \/ StartNoLogin \/ ReadLedger
    \/ LoopExit \/ LoopSkip \/ LoopSend
    \/ IssueRequest \/ RespondOk
    \/ SaveResponse \/ Sleep

NamingSpec == InitNaming /\ [][NextNaming]_vars


\* ------------------------------------------------------------------ claims
\* C1 (Retry bound): a sendRequest call all of whose attempts fail
\* transiently issues exactly maxRetries + 1 = 4 requests and then returns
\* null: the chain never holds more than 4 requests, and after 4 of them no
\* further request is about to go out.
C1_RetryBound ==
    /\ attempts <= maxRetries + 1
    /\ (pc = "send" => attempts <= maxRetries)

\* Record n (from 0) has been skipped, or a request was issued for it.
Handled(n) == i > n \/ \E r \in wire : r.i = n

\* C2 (Failure isolation): whatever the target answers, every record of the
\* sequence is eventually skipped or has a request issued for it (leaving
\* aside the run that ends on the TypeError of a null ledger, C10).
C2_FailureIsolation ==
    <>(pc = "crashed" \/ \A n \in 0..(Len(dataRawLines) - 1) : Handled(n))

\* C3 (Idempotent resume): with a logFile, a later run issues no request for
\* a RequestData that an earlier run saved, marked and persisted.
C3_IdempotentResume ==
    logFile => \A r \in wire : r.data \notin doneBefore

\* C4 (Crash safety of the ledger): with a logFile, when the run moves on
\* from a record whose request succeeded, the ledger file holds that
\* record's RequestData: only the record still being processed can be
\* missing from the file.
C4_LedgerCrashSafety ==
    [][(logFile /\ pc = "sleep" /\ ~response.null /\ pc' = "loop")
         => requestData \in ledgerFile'.keys]_vars

\* A failure with a response whose status is not 429, or a non-Axios error.
IsPermanent(error) ==
    \/ error.hasResponse /\ error.status # 429
    \/ ~error.isAxiosError

\* C5 (No retry on permanent failure): once an attempt has failed with a
\* permanent error, sendRequest has returned null and no further request is
\* issued; when that attempt was the original one, the call made exactly 1.
C5_NoRetryOnPermanent ==
    (lastError # NoError /\ IsPermanent(lastError)) =>
        /\ pc = "sleep"
        /\ response = NullResponse
        /\ (sessionCookie = cookies => attempts = 1)

C5_Witness ==
    /\ pc = "sleep" /\ lastError = HttpError(404)
    /\ attempts = 1 /\ response = NullResponse
    /\ \E r \in wire : r.i = i

\* C6 (Empty cookies abort): when the login response carries no Set-Cookie
\* header, no request is ever issued to the main target, whatever the extra
\* cookie URLs return.
C6_EmptyCookiesAbort ==
    (received # <<>> /\ received[1] = <<>>) => wire = {}

\* C7 (Extra cookie-URL failure is non-fatal): once the login has returned at
\* least one cookie, the run is not aborted, whatever happens on the visits
\* of the extra cookie URLs.
C7_ExtraVisitFailureNonFatal ==
    (received # <<>> /\ received[1] # <<>>) => pc # "aborted"

\* C8 (Authentication failure aborts before any work): whenever
\* loginWithCookie returns null the run has ended in Aborted, where nothing
\* more happens, with no request issued to the main target, no output file
\* written and the ledger file as it was.
C8_AuthFailureAborts ==
    loginReturned = "null" =>
        /\ pc = "aborted"
        /\ ~ENABLED Next
        /\ wire = {}
        /\ outFiles = atStart.out
        /\ ledgerFile = atStart.ledger

C8_Witness ==
    /\ loginReturned = "null" /\ pc = "aborted"
    /\ logFile /\ dataRawLines # <<>>
    /\ received # <<>> /\ received[1] # <<>>

\* C9 (Login cookie accumulation): when login and all extra visits succeed,
\* the credential is the concatenation in order of the Set-Cookie lists
\* received, the n-th extra visit sent exactly the cookies received before
\* it, and every request to the main target carries the whole credential.
C9_CookieAccumulation ==
    loginReturned = "cookies" =>
        /\ cookies = ListValue(Flatten(received))
        /\ \A n \in 1..Len(visits) :
              visits[n] = Join(Flatten(SubSeq(received, 1, n)))
        /\ \A r \in wire : r.cookie = ListValue(Flatten(received))

\* C10 (Corrupt or unusable ledger file is a fresh start): whatever the
\* ledger file holds, the run never ends by raising an error.
C10_CorruptLedgerFreshStart == pc # "crashed"

\* C11 (Record limit in file mode): for a readable payload file of n lines
\* and a specified recordLimit r (r >= 0) the record sequence is the first
\* min(r, n) lines of the file, in file order; with no recordLimit it is all
\* n lines.  The lines are the pieces processFile splits the text into.
C11_RecordLimit ==
    (pc = "load" /\ dataRawFile.given /\ dataRawFile.readable) =>
        LET lines == Split(dataRawFile.text)
        IN  /\ (recordLimit.given /\ recordLimit.n >= 0) =>
                    dataRawLines = SubSeq(lines, 1, Min(recordLimit.n, Len(lines)))
            /\ ~recordLimit.given => dataRawLines = lines

\* The template with every placeholder token replaced by the value as it is.
RECURSIVE Verbatim(_, _)
Verbatim(template, value) ==
    IF template = <<>> THEN <<>>
    ELSE IF Len(template) >= Len(Placeholder)
            /\ SubSeq(template, 1, Len(Placeholder)) = Placeholder
    THEN value \o Verbatim(SubSeq(template, Len(Placeholder) + 1, Len(template)), value)
    ELSE <<Head(template)>> \o Verbatim(Tail(template), value)

\* C12 (Placeholder substitution): with a non-empty template the RequestData
\* handed to sendRequest is the template with the placeholder token replaced
\* by the record value verbatim; with an empty or absent template it is the
\* raw record value.
C12_PlaceholderSubstitution ==
    pc = "send" =>
        requestData = (IF dataRawString # <<>>
                       THEN Verbatim(dataRawString, Line(i))
                       ELSE Line(i))

\* The character class [A-Za-z0-9-_.].
InClass(c) ==
    \/ c \in {"A", "B", "C", "D", "E", "F", "G", "H", "I", "J", "K", "L", "M",
               "N", "O", "P", "Q", "R", "S", "T", "U", "V", "W", "X", "Y", "Z"}
    \/ c \in {"a", "b", "c", "d", "e", "f", "g", "h", "i", "j", "k", "l", "m",
               "n", "o", "p", "q", "r", "s", "t", "u", "v", "w", "x", "y", "z"}
    \/ c \in {"0", "1", "2", "3", "4", "5", "6", "7", "8", "9"}
    \/ c \in {"-", "_", "."}
\* The characters of value that are in the class, in order, cut to the first 200.
KeptAndCut(value) ==
    LET kept == SelectSeq(value, InClass)
    IN  SubSeq(kept, 1, Min(200, Len(kept)))

\* C13 (Filename sanitization): the variable part of the name of every file
\* written is the subsequence of the characters of its record value that are
\* in [A-Za-z0-9-_.], in order, cut to its first 200 characters; it holds no
\* other character and is never longer than 200; and the response just saved
\* is in the file so named.
C13_FilenameSanitization ==
    /\ \A f \in outFiles :
           /\ \E n \in 0..i : n < Len(dataRawLines) /\ f.name = KeptAndCut(Line(n))
           /\ Len(f.name) <= 200
           /\ \A k \in 1..Len(f.name) : InClass(f.name[k])
    /\ (pc = "sleep" /\ Truthy(response)) =>
           [name |-> KeptAndCut(Line(i)), body |-> response.data] \in outFiles
\* A response was saved for a record value of more than 200 characters with
\* a character outside the class, under a name of 200 characters.
C13_Witness ==
    /\ pc = "sleep" /\ Truthy(response)
    /\ Len(Line(i)) > 200
    /\ \E k \in 1..Len(Line(i)) : ~InClass(Line(i)[k])
    /\ \E f \in outFiles : Len(f.name) = 200 /\ f.name = KeptAndCut(Line(i))

\* C18 (Unique output files): within one run on one day, records with
\* different raw values whose responses are both saved are written to
\* different files, so that no saved response is overwritten: with the raw
\* value as the RequestData (no template) and a ledger that starts empty,
\* log.keys are the raw values saved, and there are as many files.
C18_UniqueOutputFiles ==
    Cardinality(outFiles) = Cardinality(log.keys)

\* C14 (Credential reused verbatim): when login succeeded, every request
\* issued to the main target, the retry attempts of sendRequest included,
\* carries the credential the login returned, and the credential of a call
\* of sendRequest is not altered between its attempts.
C14_CredentialReused ==
    loginReturned = "cookies" =>
        /\ \A r \in wire : r.cookie = cookies
        /\ pc \in {"send", "await"} => sessionCookie = cookies

\* C15 (Delay after every record), as stated: main moves on to the next
\* record only by the step in which the inter-record delay elapses, whether
\* the record succeeded, failed or was skipped.
C15_DelayAfterEveryRecord ==
    [][i' = i + 1 => pc = "sleep"]_vars
\* C15, amended: main moves on from a record for which a request was issued
\* (answered or failed) only by the step in which the delay elapses; from a
\* record whose RequestData the ledger already has it moves on at once,
\* with no request and no delay.
C15_DelayAfterRequestedRecord ==
    [][i' = i + 1 =>
          IF \E r \in wire : r.i = i
          THEN pc = "sleep" /\ pc' = "loop"
          ELSE /\ pc = "loop" /\ pc' = "loop"
               /\ Has(log, DeriveRequestData(dataRawString, Line(i)))]_vars
\* The first record was requested and delayed, the second skipped.
C15_Witness ==
    /\ i >= 2
    /\ \E r \in wire : r.i = 0
    /\ ~\E r \in wire : r.i = 1

\* C16 (Success is always recorded): when the request for a record was
\* answered with a successful HTTP response, whatever its body, then by the
\* time main stands before the delay the body is in the record's output
\* file, the RequestData is marked in the ledger and, with a logFile, the
\* ledger file holds it.
C16_SuccessRecorded ==
    (pc = "sleep" /\ ~response.null) =>
        /\ [name |-> FileName(Line(i)), body |-> response.data] \in outFiles
        /\ requestData \in log.keys
        /\ logFile => requestData \in ledgerFile.keys

\* C17 (Failure leaves the ledger unchanged): within a run a RequestData is
\* added to the in-memory ledger only by a step that follows a request for
\* it that returned a body, and that leaves this body in the record's output
\* file; the ledger file changes only by the write of that ledger; and from
\* the call of sendRequest until the delay after it returned null neither
\* the in-memory ledger nor the ledger file changes, so that the ledger a
\* resumed run would load does not have the RequestData.
C17_FailureLeavesLedger ==
    [][/\ (log'.keys # log.keys /\ pc # "load" /\ pc' # "interrupted" /\ run' = run) =>
           /\ Truthy(response)
           /\ \E r \in wire : r.i = i /\ r.data = requestData
           /\ log'.keys = log.keys \cup {requestData}
           /\ [name |-> FileName(Line(i)), body |-> response.data] \in outFiles'
       /\ ledgerFile' # ledgerFile =>
           /\ pc = "persist" /\ Truthy(response)
           /\ ledgerFile' = ToFile(log)
       /\ ((pc \in {"send", "await"} \/ (pc = "sleep" /\ response.null))
              /\ pc' # "interrupted") =>
           /\ log' = log /\ ledgerFile' = ledgerFile
           /\ (pc' = "sleep" /\ response'.null) =>
                  /\ ~Has(log', requestData)
                  /\ ~Has(LoadLedger(logFile, ledgerFile'), requestData)]_vars
\* In a resumed run whose ledger file already holds a RequestData saved
\* before, sendRequest has returned null for another one.
C17_Witness ==
    /\ run = 2 /\ pc = "sleep" /\ response.null
    /\ ledgerFile.keys # {}
    /\ requestData \notin ledgerFile.keys
    /\ \E r \in wire : r.i = i /\ r.data = requestData

\* C19 (At most one successful request per key): once the request for a
\* record has been answered successfully, no request is ever issued in that
\* run for a later record that derives the same RequestData, whatever its
\* raw value: every such record is skipped.
C19_OneSuccessPerKey ==
    \A m \in 0..(MaxRecords - 1) :
        []((i = m /\ pc = "sleep" /\ ~response.null) =>
              [](\A r \in wire :
                    r.i > m => r.data # DeriveRequestData(dataRawString, Line(m))))

\* C20 (Ledger monotonicity): within a run every key the in-memory ledger
\* has (loaded from the file or marked) it has at every later point of the
\* run, and every write of the ledger file holds all the keys the file held
\* before: no step removes an entry.
C20_LedgerMonotonicity ==
    [][/\ (run' = run /\ pc' # "interrupted") =>
           /\ log.keys \subseteq log'.keys
           /\ \A key \in log.keys : Has(log', key)
       /\ ledgerFile.keys \subseteq ledgerFile'.keys]_vars
\* A resumed run has loaded a key from the ledger file, marked another one
\* and written the ledger file with both.
C20_Witness ==
    /\ run = 2 /\ pc = "sleep"
    /\ atStart.ledger.keys # {}
    /\ atStart.ledger.keys \subseteq log.keys
    /\ ledgerFile.keys = log.keys
    /\ ledgerFile.keys # atStart.ledger.keys

\* C21 (Method selection): every request issued for a record, the first
\* attempt and each retry, goes to the target URL and is a POST with the
\* record's RequestData as body when the RequestData is non-empty and a GET
\* when it is empty; all the attempts for a record have the same method, URL
\* and body.
C21_MethodSelection ==
    /\ \A r \in wire :
           /\ r.url = TargetUrl
           /\ r.data = DeriveRequestData(dataRawString, Line(r.i))
           /\ r.method = (IF r.data = <<>> THEN "GET" ELSE "POST")
    /\ \A r1, r2 \in wire :
           r1.i = r2.i =>
               r1.method = r2.method /\ r1.url = r2.url /\ r1.data = r2.data
    /\ pc \in {"send", "await"} => url = TargetUrl /\ dataRaw = requestData
\* A retry of a POST has gone out: the record has a non-empty RequestData
\* and the call chain has issued a second request for it.
C21_Witness ==
    /\ pc = "await" /\ attempts >= 2
    /\ requestData # <<>>
    /\ \E r1, r2 \in wire :
           r1.i = i /\ r2.i = i /\ r1 # r2 /\ r1.method = "POST" /\ r2.method = "POST"

\* C22 (Skip only when marked): every record main has moved past was either
\* requested, or its derived RequestData is a key of the ledger (loaded from
\* the ledger file or marked earlier in the run): no record is skipped
\* without a request for any other reason, whatever its RequestData.
C22_SkipOnlyWhenMarked ==
    \A n \in 0..(i - 1) :
        n < Len(dataRawLines) =>
            \/ \E r \in wire : r.i = n
            \/ DeriveRequestData(dataRawString, Line(n)) \in log.keys
=============================================================================
